---- MODULE Spec2Model ----
(***************************************************************************)
(* NBA player network: build_player_graph (graph_builder.rs) and the       *)
(* analyses of analysis.rs, driven as main.rs drives them.                 *)
(*                                                                         *)
(* A PlayerGraph is modelled as petgraph stores it: an arena of node       *)
(* weights (player names) and an arena of edges (source index, target      *)
(* index, weight).  Node indices are 1-based here (0-based in petgraph).   *)
(* f64 values are kept as reduced fractions <<num, den>>: every value the  *)
(* code computes is a quotient of two small integers, and correctly        *)
(* rounded division maps equal quotients to equal floats and orders        *)
(* distinct ones as the rationals are ordered.                             *)
(***************************************************************************)
EXTENDS Integers, Sequences, FiniteSets, TLC

\* ------------------------------------------------------------------ bounds
MaxRecords == 4      \* longest input slice `players`
MaxSampled == 3      \* longest input slice whose graph is sampled
MaxTwice == 3        \* longest input that is fed again with its records repeated
MaxRuns == 2         \* runs of the program on one input
SampleSize == 2      \* pairs drawn by compute_shortest_paths (100 in the source)

Names == {"Alice", "Bob", "Carol"}
Keys == {<<"Lakers", "2020">>, <<"Heat", "2021">>}

\* String order of the player names (`p1 < p2` on String is byte-wise).
NameRank == [n \in Names |-> CASE n = "Alice" -> 1 [] n = "Bob" -> 2 [] OTHER -> 3]

\* data_loader::PlayerSeason, the three fields the graph builder reads.
PlayerSeason == {[player_name |-> n, team |-> k[1], season |-> k[2]] : n \in Names, k \in Keys}

Inputs(max) == UNION {[1..n -> PlayerSeason] : n \in 0..max}

EmptyMap == [x \in {} |-> 0]
NoData == <<"none">>

VARIABLES
  players,          \* the input slice
  pc,               \* position in main / build_player_graph
  graph,            \* [nodes: Seq(name), edges: Seq([a, b, w])]
  node_indices,     \* name -> node index
  teammates_map,    \* canonical (name, name) -> count
  team_season_map,  \* (team, season) -> roster, entries not yet iterated
  player_list,      \* roster of the group being processed
  i, j,             \* loop indices into player_list (1-based)
  degree_count,     \* result of analyze_degrees
  scores,           \* result of compute_centrality
  most_similar,     \* analyze_similarity: reported pair of names
  max_sim,          \* analyze_similarity: reported similarity
  run,              \* which run of the program this is
  prev,             \* what the previous run was given and produced
  spc,              \* position in compute_shortest_paths
  sampled_pairs,    \* compute_shortest_paths: accepted pairs
  total_length,     \* compute_shortest_paths: sum of found path lengths
  count,            \* compute_shortest_paths: number of found paths
  sp_next,          \* compute_shortest_paths: position of the second loop
  avg_length        \* compute_shortest_paths: what is printed

buildVars == <<graph, node_indices, teammates_map, team_season_map, player_list, i, j>>
mainVars == <<degree_count, scores, most_similar, max_sim>>
runVars == <<run, prev>>
pathVars == <<spc, sampled_pairs, total_length, count, sp_next, avg_length>>
vars == <<players, pc, buildVars, mainVars, runVars, pathVars>>

\* ------------------------------------------------------------ f64 values
RECURSIVE GCD(_, _)
GCD(a, b) == IF b = 0 THEN a ELSE GCD(b, a % b)

\* n as f64 / d as f64, d > 0
Div(n, d) == LET g == GCD(n, d) IN <<n \div g, d \div g>>
Zero == <<0, 1>>
FGt(x, y) == x[1] * y[2] > y[1] * x[2]
FLe(x, y) == x[1] * y[2] <= y[1] * x[2]

\* ---------------------------------------------------------- petgraph::Graph
NewGraph == [nodes |-> <<>>, edges |-> <<>>]

NodeIdx(g) == 1..Len(g.nodes)

\* find_edge as on a directed graph: only an edge from a to b is found.
find_edge_directed(g, a, b) ==
  LET hits == {e \in 1..Len(g.edges) : g.edges[e].a = a /\ g.edges[e].b = b}
  IN IF hits = {} THEN 0 ELSE CHOOSE e \in hits : \A f \in hits : e <= f

\* Graph::find_edge on an undirected graph: an edge joining a and b in
\* either direction; 0 stands for None.
find_edge(g, a, b) ==
  LET hits == {e \in 1..Len(g.edges) :
                 \/ g.edges[e].a = a /\ g.edges[e].b = b
                 \/ g.edges[e].a = b /\ g.edges[e].b = a}
  IN IF hits = {} THEN 0 ELSE CHOOSE e \in hits : \A f \in hits : e <= f

add_node(g, name) == [g EXCEPT !.nodes = Append(@, name)]

add_edge(g, a, b, w) == [g EXCEPT !.edges = Append(@, [a |-> a, b |-> b, w |-> w])]

\* Graph::neighbors on an undirected graph: the other endpoint of every
\* incident edge (a self-loop yields the node itself).
neighbors(g, u) ==
  {g.edges[e].b : e \in {f \in 1..Len(g.edges) : g.edges[f].a = u}}
  \cup {g.edges[e].a : e \in {f \in 1..Len(g.edges) : g.edges[f].b = u}}

\* The degree as the sum of the weights of the incident edges.
edges_count_weighted(g, u) ==
  LET inc == {e \in 1..Len(g.edges) : g.edges[e].a = u \/ g.edges[e].b = u}
      sum[es \in SUBSET inc] ==
        IF es = {} THEN 0
        ELSE LET e == CHOOSE x \in es : TRUE IN g.edges[e].w + sum[es \ {e}]
  IN sum[inc]

\* Graph::edges(node).count() on an undirected graph: outgoing edges, then
\* incoming edges with self-loops skipped so that they count once.
edges_count(g, u) ==
  Cardinality({e \in 1..Len(g.edges) : g.edges[e].a = u})
  + Cardinality({e \in 1..Len(g.edges) : g.edges[e].b = u /\ g.edges[e].a # u})

\* ------------------------------------------------------ build_player_graph
\* graph_builder.rs:24-29, the grouping loop.
RECURSIVE GroupRecords(_, _)
GroupRecords(m, ps) ==
  IF ps = <<>> THEN m
  ELSE LET r == Head(ps)
           key == <<r.team, r.season>>
           cur == IF key \in DOMAIN m THEN m[key] ELSE <<>>
       IN GroupRecords([k \in DOMAIN m \cup {key} |->
                          IF k = key THEN Append(cur, r.player_name) ELSE m[k]],
                       Tail(ps))

\* A node is added at every lookup, known name or not.
EntryGraphAlways(g, ni, p) == add_node(g, p)

\* node_indices.entry(p).or_insert_with(|| graph.add_node(p)): the graph
\* and the index map after the lookup.
EntryGraph(g, ni, p) == IF p \in DOMAIN ni THEN g ELSE add_node(g, p)
EntryIndices(g, ni, p) ==
  IF p \in DOMAIN ni THEN ni
  ELSE [n \in DOMAIN ni \cup {p} |-> IF n = p THEN Len(g.nodes) + 1 ELSE ni[n]]

\* graph_builder.rs:43
CanonicalKey(p1, p2) == IF NameRank[p1] < NameRank[p2] THEN <<p1, p2>> ELSE <<p2, p1>>

\* graph_builder.rs:44-45
CountPair(tm, key) ==
  [k \in DOMAIN tm \cup {key} |->
     IF k = key THEN (IF key \in DOMAIN tm THEN tm[key] ELSE 0) + 1 ELSE tm[k]]

\* The edge is added when missing, and an existing edge keeps its weight.
AddOrKeep(g, idx1, idx2) ==
  IF find_edge(g, idx1, idx2) = 0 THEN add_edge(g, idx1, idx2, 1) ELSE g

\* graph_builder.rs:48-54
AddOrIncrement(g, idx1, idx2) ==
  IF find_edge(g, idx1, idx2) = 0
  THEN add_edge(g, idx1, idx2, 1)
  ELSE [g EXCEPT !.edges[find_edge(g, idx1, idx2)].w = @ + 1]

\* The locals of build_player_graph and of the analyses before the first
\* statement; `at` is where compute_shortest_paths stands, `max` bounds the
\* length of the input.
Start(at, max) ==
  /\ players \in Inputs(max)
  /\ spc = at
  /\ pc = "group"
  /\ graph = NewGraph
  /\ node_indices = EmptyMap
  /\ teammates_map = EmptyMap
  /\ team_season_map = EmptyMap
  /\ player_list = <<>>
  /\ i = 0 /\ j = 0
  /\ degree_count = EmptyMap
  /\ scores = EmptyMap
  /\ most_similar = <<"", "">>
  /\ max_sim = Zero
  /\ run = 1
  /\ prev = NoData
  /\ sampled_pairs = <<>>
  /\ total_length = 0
  /\ count = 0
  /\ sp_next = 1
  /\ avg_length = NoData

\* main: compute_shortest_paths is not called
Init == Start("off", MaxRecords)

\* build_player_graph followed by a call of compute_shortest_paths
PathInit == Start("draw", MaxSampled)

\* graph_builder.rs:18-29
Group ==
  /\ pc = "group"
  /\ team_season_map' = GroupRecords(EmptyMap, players)
  /\ pc' = "groups"
  /\ UNCHANGED <<players, graph, node_indices, teammates_map, player_list, i, j,
                 mainVars, runVars, pathVars>>

\* graph_builder.rs:32, one step of the iteration over the HashMap: any
\* entry not yet yielded may come next.
NextGroup ==
  /\ pc = "groups"
  /\ DOMAIN team_season_map # {}
  /\ \E key \in DOMAIN team_season_map :
       /\ player_list' = team_season_map[key]
       /\ team_season_map' = [k \in DOMAIN team_season_map \ {key} |-> team_season_map[k]]
  /\ i' = 1
  /\ pc' = "outer"
  /\ UNCHANGED <<players, graph, node_indices, teammates_map, j, mainVars, runVars, pathVars>>

\* graph_builder.rs:33-36, head of the outer loop
Outer ==
  /\ pc = "outer"
  /\ IF i <= Len(player_list)
     THEN /\ graph' = EntryGraph(graph, node_indices, player_list[i])
          /\ node_indices' = EntryIndices(graph, node_indices, player_list[i])
          /\ j' = i + 1
          /\ pc' = "inner"
          /\ UNCHANGED i
     ELSE /\ pc' = "groups"
          /\ UNCHANGED <<graph, node_indices, i, j>>
  /\ UNCHANGED <<players, teammates_map, team_season_map, player_list,
                 mainVars, runVars, pathVars>>

\* graph_builder.rs:38-55, one pair of the inner loop
Inner ==
  /\ pc = "inner"
  /\ IF j <= Len(player_list)
     THEN LET p1 == player_list[i]
              p2 == player_list[j]
              g2 == EntryGraph(graph, node_indices, p2)
              ni2 == EntryIndices(graph, node_indices, p2)
          IN /\ node_indices' = ni2
             /\ teammates_map' = CountPair(teammates_map, CanonicalKey(p1, p2))
             /\ graph' = AddOrIncrement(g2, ni2[p1], ni2[p2])
             /\ j' = j + 1
             /\ UNCHANGED <<i, pc>>
     ELSE /\ i' = i + 1
          /\ pc' = "outer"
          /\ UNCHANGED <<graph, node_indices, teammates_map, j>>
  /\ UNCHANGED <<players, team_season_map, player_list, mainVars, runVars, pathVars>>

\* graph_builder.rs:59, the map is exhausted and the graph is returned
Built ==
  /\ pc = "groups"
  /\ DOMAIN team_season_map = {}
  /\ pc' = "built"
  /\ UNCHANGED <<players, buildVars, mainVars, runVars, pathVars>>

BuildNext == Group \/ NextGroup \/ Outer \/ Inner \/ Built

\* -------------------------------------------------------------- analysis.rs
\* analysis.rs:11-19
RECURSIVE DegreeLoop(_, _, _)
DegreeLoop(g, node, dc) ==
  IF node > Len(g.nodes) THEN dc
  ELSE LET degree == edges_count(g, node)
       IN DegreeLoop(g, node + 1,
            [d \in DOMAIN dc \cup {degree} |->
               (IF d \in DOMAIN dc THEN dc[d] ELSE 0) + (IF d = degree THEN 1 ELSE 0)])

analyze_degrees(g) == DegreeLoop(g, 1, EmptyMap)

Min(S) == CHOOSE x \in S : \A y \in S : x <= y

\* Distances with each edge costing its stored weight (|e| *e.weight()).
RECURSIVE RelaxWeighted(_, _, _)
RelaxWeighted(g, dist, n) ==
  IF n = 0 THEN dist
  ELSE LET via(v) == {dist[g.edges[e].a] + g.edges[e].w :
                        e \in {f \in 1..Len(g.edges) :
                                 g.edges[f].b = v /\ g.edges[f].a \in DOMAIN dist}}
                     \cup {dist[g.edges[e].b] + g.edges[e].w :
                        e \in {f \in 1..Len(g.edges) :
                                 g.edges[f].a = v /\ g.edges[f].b \in DOMAIN dist}}
           old(v) == IF v \in DOMAIN dist THEN {dist[v]} ELSE {}
           dom == DOMAIN dist \cup {v \in NodeIdx(g) : via(v) # {}}
       IN RelaxWeighted(g, [v \in dom |-> Min(old(v) \cup via(v))], n - 1)

dijkstra_weighted(g, src) == RelaxWeighted(g, [v \in {src} |-> 0], Len(g.nodes))

\* petgraph::algo::dijkstra(graph, node, None, |_| 1): the distance of every
\* node reachable from src, each edge costing 1.
RECURSIVE Relax(_, _, _, _)
Relax(g, dist, frontier, d) ==
  IF frontier = {} THEN dist
  ELSE LET next == (UNION {neighbors(g, u) : u \in frontier}) \ DOMAIN dist
       IN Relax(g, [v \in DOMAIN dist \cup next |-> IF v \in next THEN d + 1 ELSE dist[v]],
                next, d + 1)

dijkstra(g, src) == Relax(g, [v \in {src} |-> 0], {src}, 0)

RECURSIVE SumValues(_)
SumValues(f) ==
  IF DOMAIN f = {} THEN 0
  ELSE LET x == CHOOSE y \in DOMAIN f : TRUE
       IN f[x] + SumValues([y \in DOMAIN f \ {x} |-> f[y]])

\* Closeness with the source counted among the reached nodes (n / sum).
ClosenessCountingSelf(g, node) ==
  LET result == dijkstra(g, node)
      total_distance == SumValues(result)
  IN IF total_distance > 0
     THEN Div(Cardinality(DOMAIN result), total_distance)
     ELSE Zero

\* analysis.rs:29-36
Closeness(g, node) ==
  LET result == dijkstra(g, node)
      total_distance == SumValues(result)
  IN IF total_distance > 0
     THEN Div(Cardinality(DOMAIN result) - 1, total_distance)
     ELSE Zero

\* analysis.rs:24-39
RECURSIVE CentralityLoop(_, _, _)
CentralityLoop(g, node, sc) ==
  IF node > Len(g.nodes) THEN sc
  ELSE CentralityLoop(g, node + 1,
         [n \in DOMAIN sc \cup {g.nodes[node]} |->
            IF n = g.nodes[node] THEN Closeness(g, node) ELSE sc[n]])

compute_centrality(g) == CentralityLoop(g, 1, EmptyMap)

\* analysis.rs:92-103
Jaccard(g, u, v) ==
  LET u_neighbors == neighbors(g, u)
      v_neighbors == neighbors(g, v)
      intersection == Cardinality(u_neighbors \cap v_neighbors)
      union == Cardinality(u_neighbors \cup v_neighbors)
  IN IF union > 0 THEN Div(intersection, union) ELSE Zero

\* analysis.rs:106-109
Track(g, u, v, best) ==
  IF FGt(Jaccard(g, u, v), best.max_sim)
  THEN [max_sim |-> Jaccard(g, u, v), most_similar |-> <<g.nodes[u], g.nodes[v]>>]
  ELSE best

\* analysis.rs:88-111, the nested loops over node positions
RECURSIVE SimilarityLoop(_, _, _, _)
SimilarityLoop(g, a, b, best) ==
  IF a > Len(g.nodes) THEN best
  ELSE IF b > Len(g.nodes) THEN SimilarityLoop(g, a + 1, a + 2, best)
  ELSE SimilarityLoop(g, a, b + 1, Track(g, a, b, best))

\* analysis.rs:83-117
analyze_similarity(g) ==
  SimilarityLoop(g, 1, 2, [max_sim |-> Zero, most_similar |-> <<"", "">>])

\* ------------------------------------------------------------------ main.rs
\* main.rs:46
AnalyzeDegrees ==
  /\ pc = "built"
  /\ spc = "off"
  /\ degree_count' = analyze_degrees(graph)
  /\ pc' = "centrality"
  /\ UNCHANGED <<players, buildVars, scores, most_similar, max_sim, runVars, pathVars>>

\* main.rs:53
ComputeCentrality ==
  /\ pc = "centrality"
  /\ scores' = compute_centrality(graph)
  /\ pc' = "similarity"
  /\ UNCHANGED <<players, buildVars, degree_count, most_similar, max_sim, runVars, pathVars>>

\* main.rs:59
AnalyzeSimilarity ==
  /\ pc = "similarity"
  /\ most_similar' = analyze_similarity(graph).most_similar
  /\ max_sim' = analyze_similarity(graph).max_sim
  /\ pc' = "done"
  /\ UNCHANGED <<players, buildVars, degree_count, scores, runVars, pathVars>>

\* What a finished run leaves behind for the comparison with the next one.
Outcome ==
  [players |-> players, graph |-> graph, most_similar |-> most_similar, max_sim |-> max_sim]

Restart(input) ==
  /\ players' = input
  /\ pc' = "group"
  /\ graph' = NewGraph
  /\ node_indices' = EmptyMap
  /\ teammates_map' = EmptyMap
  /\ team_season_map' = EmptyMap
  /\ player_list' = <<>>
  /\ i' = 0 /\ j' = 0
  /\ degree_count' = EmptyMap
  /\ scores' = EmptyMap
  /\ most_similar' = <<"", "">>
  /\ max_sim' = Zero
  /\ run' = run + 1
  /\ prev' = Outcome
  /\ UNCHANGED pathVars

\* main.rs:19-97, the program is run once more on the same file
RunAgain ==
  /\ pc = "done"
  /\ run < MaxRuns
  /\ Restart(players)

\* The records of the input with their (team, season) replaced by key.
Rekey(ps, key) == [n \in 1..Len(ps) |-> [ps[n] EXCEPT !.team = key[1], !.season = key[2]]]

\* main.rs:19-97, the program is run on a file in which every player of the
\* first file has a second record, in the group `key`
RunTwice ==
  /\ pc = "done"
  /\ run < MaxRuns
  /\ Len(players) \in 1..MaxTwice
  /\ \E key \in Keys : Restart(players \o Rekey(players, key))

Next == BuildNext \/ AnalyzeDegrees \/ ComputeCentrality \/ AnalyzeSimilarity
        \/ RunAgain \/ RunTwice

Spec == Init /\ [][Next]_vars

\* --------------------------------------------------- compute_shortest_paths
\* petgraph::algo::astar(graph, a, |n| n == b, |_| 1, |_| 0): the cost of a
\* cheapest path from a to b, each edge costing 1; -1 stands for None.
astar(g, a, b) == IF b \in DOMAIN dijkstra(g, a) THEN dijkstra(g, a)[b] ELSE -1

\* analysis.rs:48-54, one pass of the drawing loop.  `choose` on an empty
\* vector returns None and the unwrap panics.
Draw ==
  /\ pc = "built"
  /\ spc = "draw"
  /\ IF Len(sampled_pairs) < SampleSize
     THEN IF Len(graph.nodes) = 0
          THEN /\ spc' = "panic"
               /\ UNCHANGED sampled_pairs
          ELSE /\ \E a \in NodeIdx(graph), b \in NodeIdx(graph) :
                    sampled_pairs' = IF a # b THEN Append(sampled_pairs, <<a, b>>)
                                     ELSE sampled_pairs
               /\ UNCHANGED spc
     ELSE /\ spc' = "eval"
          /\ UNCHANGED sampled_pairs
  /\ UNCHANGED <<players, pc, buildVars, mainVars, runVars, total_length, count,
                 sp_next, avg_length>>

\* The second loop with every sampled pair counted, connected or not.
EvalCountingAll ==
  /\ pc = "built"
  /\ spc = "eval"
  /\ sp_next <= Len(sampled_pairs)
  /\ LET a == sampled_pairs[sp_next][1]
         b == sampled_pairs[sp_next][2]
     IN /\ total_length' = total_length + (IF astar(graph, a, b) # -1 THEN astar(graph, a, b) ELSE 0)
        /\ count' = count + 1
  /\ sp_next' = sp_next + 1
  /\ UNCHANGED <<players, pc, buildVars, mainVars, runVars, spc, sampled_pairs, avg_length>>

\* analysis.rs:59-71, one pair of the second loop
Eval ==
  /\ pc = "built"
  /\ spc = "eval"
  /\ sp_next <= Len(sampled_pairs)
  /\ LET a == sampled_pairs[sp_next][1]
         b == sampled_pairs[sp_next][2]
     IN IF astar(graph, a, b) # -1
        THEN /\ total_length' = total_length + astar(graph, a, b)
             /\ count' = count + 1
        ELSE UNCHANGED <<total_length, count>>
  /\ sp_next' = sp_next + 1
  /\ UNCHANGED <<players, pc, buildVars, mainVars, runVars, spc, sampled_pairs, avg_length>>

\* analysis.rs:74-79
Report ==
  /\ pc = "built"
  /\ spc = "eval"
  /\ sp_next > Len(sampled_pairs)
  /\ avg_length' = IF count > 0 THEN Div(total_length, count) ELSE NoData
  /\ spc' = "done"
  /\ UNCHANGED <<players, pc, buildVars, mainVars, runVars, sampled_pairs, total_length,
                 count, sp_next>>

PathNext == BuildNext \/ Draw \/ Eval \/ Report

\* build_player_graph followed by compute_shortest_paths
PathSpec == PathInit /\ [][PathNext]_vars

\* The same, with the steps of the program taken as long as one is possible.
LivePathSpec == PathSpec /\ WF_vars(PathNext)

\* ================================================================ properties
\* Vocabulary of the properties, defined on the input records and on the
\* graph as a set of joined nodes, independently of how the code computes.

Returned == pc \in {"built", "centrality", "similarity", "done"}

GroupKeys(ps) == {<<ps[n].team, ps[n].season>> : n \in 1..Len(ps)}
Members(ps, key) == {ps[n].player_name : n \in {m \in 1..Len(ps) : <<ps[m].team, ps[m].season>> = key}}
PlayersIn(ps) == {ps[n].player_name : n \in 1..Len(ps)}

\* Number of (team, season) groups in which both names appear.
CoGroups(ps, a, b) == Cardinality({k \in GroupKeys(ps) : a \in Members(ps, k) /\ b \in Members(ps, k)})

NodeNames(g) == {g.nodes[n] : n \in 1..Len(g.nodes)}

\* The edges joining the nodes named a and b, in either direction.
EdgesBetween(g, a, b) ==
  {e \in 1..Len(g.edges) :
     \/ g.nodes[g.edges[e].a] = a /\ g.nodes[g.edges[e].b] = b
     \/ g.nodes[g.edges[e].a] = b /\ g.nodes[g.edges[e].b] = a}

RECURSIVE WeightSum(_, _)
WeightSum(g, es) ==
  IF es = {} THEN 0
  ELSE LET e == CHOOSE x \in es : TRUE IN g.edges[e].w + WeightSum(g, es \ {e})

WeightBetween(g, a, b) == WeightSum(g, EdgesBetween(g, a, b))

JoinedPairs(g) == {{g.nodes[g.edges[e].a], g.nodes[g.edges[e].b]} : e \in 1..Len(g.edges)}

Adjacent(g, u, v) == \E e \in 1..Len(g.edges) : {g.edges[e].a, g.edges[e].b} = {u, v}

\* A walk of k edges from u to v.
Walk(g, u, v, k) ==
  \E p \in [1..(k + 1) -> NodeIdx(g)] :
    /\ p[1] = u /\ p[k + 1] = v
    /\ \A t \in 1..k : Adjacent(g, p[t], p[t + 1])

Connected(g, u, v) == \E k \in 0..(Len(g.nodes) - 1) : Walk(g, u, v, k)

\* Hop count of a shortest walk from u to a node v connected to it.
Hops(g, u, v) ==
  CHOOSE k \in 0..(Len(g.nodes) - 1) :
    Walk(g, u, v, k) /\ \A m \in 0..(k - 1) : ~Walk(g, u, v, m)

\* C1: the graph returned by build_player_graph has no edge whose two
\* endpoints are the same node, and the roster [Alice, Alice, Bob] yields
\* exactly one edge, Alice-Bob.
C1_NoSelfLoop ==
  Returned =>
    /\ \A e \in 1..Len(graph.edges) : graph.edges[e].a # graph.edges[e].b
    /\ (\E k \in Keys : players = [n \in 1..3 |->
                            [player_name |-> <<"Alice", "Alice", "Bob">>[n],
                             team |-> k[1], season |-> k[2]]])
         => JoinedPairs(graph) = {{"Alice", "Bob"}} /\ Len(graph.edges) = 1

\* C2: with fewer than 2 nodes compute_shortest_paths terminates and reports
\* "no data": once the drawing loop is entered it leads to the report.
C2_FewNodesTerminates ==
  (pc = "built" /\ spc = "draw" /\ Len(graph.nodes) < 2)
    ~> (spc = "done" /\ avg_length = NoData)

\* C3: in the returned graph the weight of the edge between two distinct
\* names is the number of groups holding both, and there is no edge exactly
\* when that number is 0.
C3_WeightIsCoGroups ==
  Returned =>
    \A a \in Names, b \in Names :
      a # b =>
        /\ WeightBetween(graph, a, b) = CoGroups(players, a, b)
        /\ (EdgesBetween(graph, a, b) = {}) <=> (CoGroups(players, a, b) = 0)

\* C4: two runs on the same records report the same most-similar pair.
C4_SameReport ==
  (pc = "done" /\ run > 1 /\ prev.players = players) =>
    /\ {most_similar[1], most_similar[2]} = {prev.most_similar[1], prev.most_similar[2]}
    /\ max_sim = prev.max_sim

\* Jaccard similarity of the neighbourhoods of two nodes, as a fraction.
Nbrs(g, u) == {v \in NodeIdx(g) : Adjacent(g, u, v)}
Similarity(g, u, v) ==
  IF Nbrs(g, u) \cup Nbrs(g, v) = {} THEN Zero
  ELSE Div(Cardinality(Nbrs(g, u) \cap Nbrs(g, v)), Cardinality(Nbrs(g, u) \cup Nbrs(g, v)))

\* C5: analyze_similarity reports the "no pair" sentinel exactly when the
\* graph has fewer than two nodes; with two nodes or more it reports two
\* distinct nodes and their similarity, the maximum over all pairs.
C5_PairUnlessFewNodes ==
  pc = "done" =>
    /\ (most_similar = <<"", "">>) <=> (Len(graph.nodes) < 2)
    /\ Len(graph.nodes) >= 2 =>
         \E u \in NodeIdx(graph), v \in NodeIdx(graph) :
           /\ u # v
           /\ most_similar = <<graph.nodes[u], graph.nodes[v]>>
           /\ max_sim = Similarity(graph, u, v)
           /\ \A x \in NodeIdx(graph), y \in NodeIdx(graph) :
                x # y => FLe(Similarity(graph, x, y), max_sim)

\* A single (team, season) roster of distinct player names.
SingleRoster(ps) ==
  /\ Len(ps) >= 1
  /\ Cardinality(GroupKeys(ps)) = 1
  /\ \A m \in 1..Len(ps), n \in 1..Len(ps) : m # n => ps[m].player_name # ps[n].player_name

\* This run was fed the roster of the previous run twice, the second time
\* in the group `key`.
FedTwice(key) ==
  /\ run > 1
  /\ SingleRoster(prev.players)
  /\ players = prev.players \o Rekey(prev.players, key)

\* g2 has the nodes and the joined pairs of g1, no parallel edge, and twice
\* the weight between every two names of the roster.
SameShapeDoubled(g1, g2, roster) ==
  /\ Len(g2.nodes) = Len(g1.nodes)
  /\ NodeNames(g2) = NodeNames(g1)
  /\ JoinedPairs(g2) = JoinedPairs(g1)
  /\ \A a \in Names, b \in Names : Cardinality(EdgesBetween(g2, a, b)) <= 1
  /\ \A a \in roster, b \in roster :
       a # b => WeightBetween(g2, a, b) = 2 * WeightBetween(g1, a, b)

\* C6 as stated: an input in which the records of a roster of distinct names
\* appear twice gives the same nodes and joined pairs and doubled weights.
C6_RecordsTwiceDoubles ==
  Returned =>
    \A key \in Keys :
      FedTwice(key) => SameShapeDoubled(prev.graph, graph, PlayersIn(prev.players))

\* C6, amended: a roster of distinct names that appears a second time as a
\* different (team, season) group gives the same nodes and joined pairs,
\* no parallel edge, and exactly doubled weights.
C6_RosterInTwoGroupsDoubles ==
  Returned =>
    \A key \in Keys :
      (FedTwice(key) /\ key \notin GroupKeys(prev.players))
        => SameShapeDoubled(prev.graph, graph, PlayersIn(prev.players))

C6_Witness ==
  /\ pc = "done"
  /\ \E key \in Keys : FedTwice(key) /\ key \notin GroupKeys(prev.players)
  /\ Len(prev.players) = 3
  /\ WeightBetween(graph, "Alice", "Carol") = 2

\* Closeness of node u from walks: (|R| - 1) / S, or 0 when S = 0.
Reach(g, u) == {v \in NodeIdx(g) : Connected(g, u, v)}

RECURSIVE HopSum(_, _, _)
HopSum(g, u, vs) ==
  IF vs = {} THEN 0
  ELSE LET v == CHOOSE x \in vs : TRUE IN Hops(g, u, v) + HopSum(g, u, vs \ {v})

ClosenessOf(g, u) ==
  LET S == HopSum(g, u, Reach(g, u) \ {u})
  IN IF S > 0 THEN Div(Cardinality(Reach(g, u)) - 1, S) ELSE Zero

One == <<1, 1>>

Scenario ==
  <<[player_name |-> "Alice", team |-> "Lakers", season |-> "2020"],
    [player_name |-> "Bob", team |-> "Lakers", season |-> "2020"],
    [player_name |-> "Alice", team |-> "Heat", season |-> "2021"],
    [player_name |-> "Carol", team |-> "Heat", season |-> "2021"]>>

Scored == pc \in {"similarity", "done"}

\* C7: compute_centrality returns one entry per node, the score of a node
\* is (|R| - 1) / S over hop counts (0 when S = 0), and the scenario of the
\* specification gives Alice = 1, Bob = Carol = 2/3.
C7_ClosenessByHops ==
  Scored =>
    /\ DOMAIN scores = NodeNames(graph)
    /\ Cardinality(DOMAIN scores) = Len(graph.nodes)
    /\ \A u \in NodeIdx(graph) : scores[graph.nodes[u]] = ClosenessOf(graph, u)
    /\ players = Scenario =>
         scores = ("Alice" :> One @@ "Bob" :> <<2, 3>> @@ "Carol" :> <<2, 3>>)

C7_Witness ==
  /\ pc = "done"
  /\ players = Scenario
  /\ scores["Alice"] = One /\ scores["Bob"] = <<2, 3>>

Complete(g) == \A u \in NodeIdx(g), v \in NodeIdx(g) : u # v => Adjacent(g, u, v)

\* C8: every closeness score lies in [0, 1], and it is 1 for every node of
\* a complete graph on two nodes or more.
C8_ScoresInUnitInterval ==
  Scored =>
    /\ \A n \in DOMAIN scores : FLe(Zero, scores[n]) /\ FLe(scores[n], One)
    /\ (Len(graph.nodes) >= 2 /\ Complete(graph)) => \A n \in DOMAIN scores : scores[n] = One

C8_Witness ==
  /\ pc = "done"
  /\ Len(graph.nodes) = 3 /\ Complete(graph)
  /\ \A n \in Names : scores[n] = One

\* Positions of the sampled pairs that are joined by a path.
ConnectedSamples ==
  {k \in 1..Len(sampled_pairs) : Connected(graph, sampled_pairs[k][1], sampled_pairs[k][2])}

RECURSIVE SampleHops(_)
SampleHops(ks) ==
  IF ks = {} THEN 0
  ELSE LET k == CHOOSE x \in ks : TRUE
       IN Hops(graph, sampled_pairs[k][1], sampled_pairs[k][2]) + SampleHops(ks \ {k})

\* C9: with two nodes or more compute_shortest_paths reports the mean hop
\* count of exactly the connected sampled pairs, every sampled pair has two
\* different members, and "no data" is reported exactly when no sampled pair
\* is connected.
C9_MeanOfConnectedSamples ==
  (spc = "done" /\ Len(graph.nodes) >= 2) =>
    /\ Len(sampled_pairs) = SampleSize
    /\ \A k \in 1..Len(sampled_pairs) : sampled_pairs[k][1] # sampled_pairs[k][2]
    /\ (avg_length = NoData) <=> (ConnectedSamples = {})
    /\ ConnectedSamples # {} =>
         avg_length = Div(SampleHops(ConnectedSamples), Cardinality(ConnectedSamples))

C9_Witness ==
  /\ spc = "done"
  /\ ConnectedSamples # {}
  /\ ConnectedSamples # 1..Len(sampled_pairs)
  /\ avg_length = One

\* At most one edge per unordered pair of nodes, every weight at least 1.
OneEdgePerPair ==
  /\ \A e \in 1..Len(graph.edges), f \in 1..Len(graph.edges) :
       {graph.edges[e].a, graph.edges[e].b} = {graph.edges[f].a, graph.edges[f].b} => e = f
  /\ \A e \in 1..Len(graph.edges) : graph.edges[e].w >= 1

\* Handling a pair adds an edge of weight 1 when none joins the two players
\* and otherwise adds 1 to the weight of the edge that does.
PairStep ==
  (pc = "inner" /\ j <= Len(player_list)) =>
    LET p1 == player_list[i]
        p2 == player_list[j]
    IN IF EdgesBetween(graph, p1, p2) = {}
       THEN /\ Len(graph'.edges) = Len(graph.edges) + 1
            /\ WeightBetween(graph', p1, p2) = 1
       ELSE /\ Len(graph'.edges) = Len(graph.edges)
            /\ WeightBetween(graph', p1, p2) = WeightBetween(graph, p1, p2) + 1

\* C10: in every state of build_player_graph and in the final graph there
\* is at most one edge per unordered pair of nodes, a pair met again in
\* either order adds 1 to the weight of its edge and no second edge, and
\* every weight is at least 1.
C10_OneEdgePerPair == []OneEdgePerPair /\ [][PairStep]_vars

C10_Witness ==
  /\ Returned
  /\ Len(players) = 4
  /\ players[1].player_name = players[4].player_name
  /\ players[2].player_name = players[3].player_name
  /\ players[1].player_name # players[2].player_name
  /\ <<players[1].team, players[1].season>> = <<players[2].team, players[2].season>>
  /\ <<players[3].team, players[3].season>> = <<players[4].team, players[4].season>>
  /\ <<players[1].team, players[1].season>> # <<players[3].team, players[3].season>>
  /\ Len(graph.edges) = 1 /\ graph.edges[1].w = 2

\* The edges incident to node u, each once whatever its weight.
Incident(g, u) == {e \in 1..Len(g.edges) : u \in {g.edges[e].a, g.edges[e].b}}

NodesOfDegree(g, d) == {u \in NodeIdx(g) : Cardinality(Incident(g, u)) = d}

RECURSIVE CountSum(_)
CountSum(f) ==
  IF DOMAIN f = {} THEN 0
  ELSE LET d == CHOOSE x \in DOMAIN f : TRUE
       IN f[d] + CountSum([x \in DOMAIN f \ {d} |-> f[x]])

Counted == pc \in {"centrality", "similarity", "done"}

\* C11: analyze_degrees maps each degree d to the number of nodes with
\* exactly d incident edges, an edge counting once whatever its weight; the
\* counts sum to the node count, the empty graph gives the empty mapping
\* and N isolated nodes give {0: N}.
C11_DegreeHistogram ==
  Counted =>
    /\ DOMAIN degree_count = {d \in 0..Len(graph.edges) : NodesOfDegree(graph, d) # {}}
    /\ \A d \in DOMAIN degree_count : degree_count[d] = Cardinality(NodesOfDegree(graph, d))
    /\ CountSum(degree_count) = Len(graph.nodes)
    /\ Len(graph.nodes) = 0 => degree_count = EmptyMap
    /\ (Len(graph.nodes) > 0 /\ Len(graph.edges) = 0) => degree_count = (0 :> Len(graph.nodes))

C11_Witness ==
  /\ pc = "done"
  /\ \E e \in 1..Len(graph.edges) : graph.edges[e].w = 2
  /\ degree_count = (1 :> 2)

\* The names that only ever appear alone in their (team, season) group.
Loners(ps) ==
  {n \in PlayersIn(ps) :
     \A m \in 1..Len(ps) :
       ps[m].player_name = n =>
         Cardinality({x \in 1..Len(ps) : <<ps[x].team, ps[x].season>> = <<ps[m].team, ps[m].season>>}) = 1}

\* C12: the nodes of the returned graph are exactly the distinct player
\* names of the input, one node per name; a player who only ever appears
\* alone still has a node, without edges, and the empty input gives the
\* graph with no nodes and no edges.
C12_NodesArePlayers ==
  Returned =>
    /\ NodeNames(graph) = PlayersIn(players)
    /\ Len(graph.nodes) = Cardinality(PlayersIn(players))
    /\ \A n \in Loners(players) : \A u \in NodeIdx(graph) :
         graph.nodes[u] = n => Incident(graph, u) = {}
    /\ players = <<>> => graph = NewGraph

C12_Witness ==
  /\ Returned
  /\ Len(players) = 4
  /\ Loners(players) = {"Carol"}
  /\ Len(graph.nodes) = 3
  /\ Len(graph.edges) >= 1
====
